---- MODULE Spec2Model ----
(***************************************************************************)
(* msdparser: the lexer (lex_msd), the parser (parse_msd) and the          *)
(* parameter serializer (MSDParameter.serialize) as one state machine.     *)
(* A string is a sequence of one-character strings.  The parser pulls      *)
(* tokens from the lexer generator one at a time; the caller drains the    *)
(* parser and then stringifies every yielded parameter with exact=True.    *)
(***************************************************************************)
EXTENDS Integers, Sequences, FiniteSets, TLC

VARIABLES
    input,      \* the document handed to parse_msd / lex_msd
    escapes,    \* the `escapes` flag
    strict,     \* the `strict` flag
    chunk,      \* how many characters one textio.read(4096) returns
    textio,     \* the part of the document not read yet
    lexer,      \* lex_msd's locals and its suspension point
    tokens,     \* every (token, text) pair lex_msd has yielded, in order
    consumed,   \* how many of them parse_msd's for loop has taken
    parser,     \* parse_msd's locals
    yielded,    \* every MSDParameter parse_msd has yielded, in order
    error,      \* the exception that ended the run, or NoError
    pc,         \* "call" (the caller is about to stringify), "run", "done"
                \* (iteration exhausted), "error" (raised)
    written,    \* the caller's stringify results so far
    caller      \* what the caller did before this parse_msd call

vars == <<input, escapes, strict, chunk, textio, lexer, tokens, consumed,
          parser, yielded, error, pc, written, caller>>

----------------------------------------------------------------------------
(* Bounds of the model *)

MaxLen == 3

MaxShortRead == 2

\* the characters in the components of a parameter built by the caller
MaxComponentChars == 2

(* textio.read(4096) *)
CHUNK == 4096

Sigma == {"#", ":", ";", "\\", "/", "\n", "\r", " ", "a"}

SeqsUpTo(S, n) == UNION {[1..k -> S] : k \in 0..n}

(* Documents of the repository's tests *)

\* tests/test_parser.py, test_escapes (its first parameter)
DocEscapes ==
    <<"#", "A", "\\", ":", "B", ":", "C", "\\", ";", "D", ";" >>

\* tests/test_lexer.py, test_missing_semicolon (its first three parameters)
DocMissingSemicolon ==
    <<"#", "A", ":", "B", "\n", "C", "D", ";", "#", "E", ":", "F", "G",
      "H", "\n", "#", "I", "J", "K", "L" >>

\* tests/test_parser.py, test_stray_text_without_strict_parsing
DocStrayText ==
    <<"#", "A", ":", "B", ";", "n", "#", "C", ":", "D", ";" >>

\* tests/test_parser.py, test_comment_with_no_newline_at_eof
DocCommentAtEof ==
    <<"#", "A", "B", "C", ":", "D", "E", "F", "/", "/", " ", "e", "o", "f" >>

\* tests/test_parser.py, test_missing_value_and_semicolon
DocMissingValueAndSemicolon ==
    <<"#", "A", "\n", "#", "B", "\n", "\n", "#", "C" >>

\* tests/test_parser.py, test_preamble_and_comment_and_escapes
DocPreambleCommentEscapes ==
    <<"/", "/", " ", "C", "o", "p", "y", "r", "i", "g", "h", "t", " ", "2",
      "0", "2", "4", "\n", "\n", "#", "k", "e", "y", ":", "v", "a", "l",
      "u", "e", "\\", ":", " ", "/", "/", " ", "c", "o", "m", "m", "e",
      "n", "t", " ", "/", "/", "\n", "l", "i", "n", "e", " ", "t", "w",
      "o", "\\", ";", "\n", "l", "i", "n", "e", "\\", "/", "/", "3", "\n",
      ";", "\n" >>

\* tests/test_parser.py, test_comments (its comments shortened)
DocComments ==
    <<"#", "A", "/", "/", "c", "\r", "\n", "B", ":", "D", "/", "/", ";",
      "\n", "E", ";", "/", "/", "#", "N", ":", "P", ";" >>

\* tests/test_parser.py, test_suffix
DocSuffix ==
    <<"/", "/", " ", "h", "i", "\n", "#", "A", ":", "B", ";", "\n", "#", "C",
      ":", "D", "\n", "#", "E", ":", "F", ";", "#", "G", ":", "H", ";", "/",
      "/", " ", "t", "e", "s", "t", "\n" >>

TestDocuments ==
    {DocEscapes, DocMissingSemicolon, DocStrayText, DocCommentAtEof,
     DocMissingValueAndSemicolon, DocPreambleCommentEscapes, DocComments,
     DocSuffix}

\* parser.py line 92, "TODO: decide how / whether to handle '\r'": comments
\* after a CR on its own, which ends a comment (LexerMatch.COMMENT)
DocCommentAfterCR == <<"#", "a", "\r", "/", "/", "c" >>

DocCommentsAroundCR == <<"#", "/", "/", "a", "\r", "/", "/", "b", ";" >>

CarriageReturnDocuments == {DocCommentAfterCR, DocCommentsAroundCR}

\* parameter.py lines 53-61, "two escapes can never occupy consecutive
\* indices": two escaped backslashes in a row
DocEscapedBackslashes == <<"#", "\\", "\\", "\\", "\\">>

\* the byte order mark U+FEFF, one character
BOM == "BOM"

\* parser.py lines 11-17, "to simplify handling UTF-8 files with a leading
\* BOM": a file that starts with the mark
DocLeadingBom == <<BOM, "#", "a", ";">>

\* the mark, then a line feed before the first parameter
DocBomAndLineFeed == <<BOM, "\n", "#", "a", ";">>

ByteOrderMarkDocuments == {DocLeadingBom, DocBomAndLineFeed}

\* tests/test_parser.py, test_stray_text_with_strict_parsing, cut down: stray
\* text after a parameter, then a backslash that ends the document
DocStrayTextThenBackslash == <<"#", ";", "a", "\\">>

\* every document of at most MaxLen characters of Sigma, the tests' ones, the
\* ones with a CR on its own, with escapes in a row, with a byte order mark
\* and with stray text before a closing backslash
Inputs ==
    SeqsUpTo(Sigma, MaxLen) \cup TestDocuments \cup CarriageReturnDocuments
        \cup {DocEscapedBackslashes} \cup ByteOrderMarkDocuments
        \cup {DocStrayTextThenBackslash}

ChunkSizes == (1..MaxShortRead) \cup {CHUNK}

----------------------------------------------------------------------------
(* Python string helpers *)

Min(a, b) == IF a < b THEN a ELSE b

Max(a, b) == IF a > b THEN a ELSE b

\* a Python slice bound: a negative index counts from the end
SliceIndex(s, i) == IF i < 0 THEN Max(0, Len(s) + i) ELSE Min(i, Len(s))

\* s[i:]
From(s, i) == SubSeq(s, SliceIndex(s, i) + 1, Len(s))

\* s[:i]
Upto(s, i) == SubSeq(s, 1, SliceIndex(s, i))

\* str.rfind(ch): the 0-based index of the last ch, or -1
rfind(s, ch) ==
    LET hits == {i \in 1..Len(s) : s[i] = ch}
    IN  IF hits = {} THEN -1 ELSE (CHOOSE i \in hits : \A j \in hits : j <= i) - 1

\* the length of the longest prefix of s made of characters outside `stop`
RECURSIVE SpanNotIn(_, _)
SpanNotIn(s, stop) ==
    IF s = <<>> \/ s[1] \in stop THEN 0 ELSE 1 + SpanNotIn(Tail(s), stop)

\* the length of the longest prefix of s made of characters of `cls`
RECURSIVE SpanIn(_, _)
SpanIn(s, cls) ==
    IF s = <<>> \/ s[1] \notin cls THEN 0 ELSE 1 + SpanIn(Tail(s), cls)

\* str.rstrip(chars)
RECURSIVE rstrip(_, _)
rstrip(s, chars) ==
    IF s # <<>> /\ s[Len(s)] \in chars THEN rstrip(SubSeq(s, 1, Len(s) - 1), chars)
    ELSE s

\* str.count(ch)
count(s, ch) == Cardinality({i \in 1..Len(s) : s[i] = ch})

\* "".join(parts)
RECURSIVE Concat(_)
Concat(parts) ==
    IF parts = <<>> THEN <<>> ELSE Head(parts) \o Concat(Tail(parts))

\* Optional[...]
None == [none |-> TRUE, value |-> <<>>]

Some(v) == [none |-> FALSE, value |-> v]

----------------------------------------------------------------------------
(* lexer.py: LexerMatch.  Each regex is the end of its match at the start  *)
(* of the buffer, 0 when it does not match (every pattern consumes >= 1).  *)

ESCAPED_TEXT(buf) == SpanNotIn(buf, {"\\", "/", ":", ";", "#"})

\* UNESCAPED_TEXT without its `+`: one character at a time
UNESCAPED_TEXT_OneCharacter(buf) == Min(1, SpanNotIn(buf, {"/", ":", ";", "#"}))

UNESCAPED_TEXT(buf) == SpanNotIn(buf, {"/", ":", ";", "#"})

POUND(buf) == IF buf # <<>> /\ buf[1] = "#" THEN 1 ELSE 0

COLON(buf) == IF buf # <<>> /\ buf[1] = ":" THEN 1 ELSE 0

SEMICOLON(buf) == IF buf # <<>> /\ buf[1] = ";" THEN 1 ELSE 0

ESCAPE(buf) == IF Len(buf) >= 2 /\ buf[1] = "\\" THEN 2 ELSE 0

COMMENT(buf) ==
    IF Len(buf) >= 2 /\ buf[1] = "/" /\ buf[2] = "/"
    THEN 2 + SpanNotIn(From(buf, 2), {"\r", "\n"})
    ELSE 0

SLASH(buf) == IF buf # <<>> /\ buf[1] = "/" THEN 1 ELSE 0

RegexMatch(match, buf) ==
    CASE match = "ESCAPED_TEXT" -> ESCAPED_TEXT(buf)
      [] match = "UNESCAPED_TEXT" -> UNESCAPED_TEXT(buf)
      [] match = "POUND" -> POUND(buf)
      [] match = "COLON" -> COLON(buf)
      [] match = "SEMICOLON" -> SEMICOLON(buf)
      [] match = "ESCAPE" -> ESCAPE(buf)
      [] match = "COMMENT" -> COMMENT(buf)
      [] match = "SLASH" -> SLASH(buf)

LexerPattern(m, out, in, esc) ==
    [match |-> m, token_outside_param |-> out, token_inside_param |-> in,
     escapes |-> esc]

\* a pattern's `escapes` is None, True or False
LEXER_PATTERNS == <<
    LexerPattern("ESCAPED_TEXT", "TEXT", "TEXT", "True"),
    LexerPattern("UNESCAPED_TEXT", "TEXT", "TEXT", "False"),
    LexerPattern("POUND", "START_PARAMETER", "TEXT", "None"),
    LexerPattern("COLON", "TEXT", "NEXT_COMPONENT", "None"),
    LexerPattern("SEMICOLON", "TEXT", "END_PARAMETER", "None"),
    LexerPattern("ESCAPE", "TEXT", "ESCAPE", "True"),
    LexerPattern("COMMENT", "COMMENT", "COMMENT", "None"),
    LexerPattern("SLASH", "TEXT", "TEXT", "None") >>

\* `pattern.escapes in (None, escapes)`
PatternEnabled(pattern, esc) ==
    pattern.escapes \in {"None", IF esc THEN "True" ELSE "False"}

lexer_patterns(esc) ==
    SelectSeq(LEXER_PATTERNS, LAMBDA pattern : PatternEnabled(pattern, esc))

\* `for pattern, regex in lexer_patterns: match = regex.match(msd_buffer)`:
\* the index of the first pattern that matches, 0 when the loop falls through
FirstMatch(buf, esc) ==
    LET pats == lexer_patterns(esc)
        hits == {i \in 1..Len(pats) : RegexMatch(pats[i].match, buf) > 0}
    IN  IF hits = {} THEN 0 ELSE CHOOSE i \in hits : \A j \in hits : i <= j

\* BufferReady without waiting for a line break or the end of the input
BufferReady_AnyText(buf, done) == buf # <<>>

\* the inner loop's condition
BufferReady(buf, done) ==
    \/ \E i \in 1..Len(buf) : buf[i] \in {"\n", "\r"}
    \/ (done /\ buf # <<>>)

\* Recovers without `msd_buffer[:1] == "#"`
Recovers_WithoutPoundCheck(rest, inside, token, matched_text) ==
    LET last_nl == Max(rfind(matched_text, "\r"), rfind(matched_text, "\n"))
    IN  /\ inside
        /\ token = "TEXT"
        /\ last_nl # -1
        /\ SpanIn(From(matched_text, last_nl + 1), {" ", "\t"})
               = Len(matched_text) - (last_nl + 1)

\* Recovers without its `and inside_parameter`
Recovers_WithoutInsideCheck(rest, inside, token, matched_text) ==
    LET last_nl == Max(rfind(matched_text, "\r"), rfind(matched_text, "\n"))
    IN  /\ Upto(rest, 1) = <<"#">>
        /\ token = "TEXT"
        /\ last_nl # -1
        /\ SpanIn(From(matched_text, last_nl + 1), {" ", "\t"})
               = Len(matched_text) - (last_nl + 1)

\* Recovers without `last_nl != -1`: the text need not hold a line break
Recovers_WithoutLineBreakCheck(rest, inside, token, matched_text) ==
    LET last_nl == Max(rfind(matched_text, "\r"), rfind(matched_text, "\n"))
    IN  /\ Upto(rest, 1) = <<"#">>
        /\ inside
        /\ token = "TEXT"
        /\ SpanIn(From(matched_text, last_nl + 1), {" ", "\t"})
               = Len(matched_text) - (last_nl + 1)

\* the missing-semicolon recovery condition, evaluated after the match has
\* been cut from the buffer
Recovers(rest, inside, token, matched_text) ==
    LET last_nl == Max(rfind(matched_text, "\r"), rfind(matched_text, "\n"))
    IN  /\ Upto(rest, 1) = <<"#">>
        /\ inside
        /\ token = "TEXT"
        /\ last_nl # -1
        /\ SpanIn(From(matched_text, last_nl + 1), {" ", "\t"})
               = Len(matched_text) - (last_nl + 1)

Token(t, text) == [token |-> t, text |-> text]

----------------------------------------------------------------------------
(* Exceptions *)

NoError == [type |-> "none", what |-> "", char |-> "", key |-> None]

\* lexer.py: `assert False, f"no regex matches {repr(msd_buffer)}"`
LexerAssertion == [type |-> "AssertionError", what |-> "no regex matches",
                   char |-> "", key |-> None]

\* parser.py: a failed `assert` of the token loop
ParserAssertion == [type |-> "AssertionError", what |-> "parser", char |-> "",
                    key |-> None]

\* parser.py: components[-1] with no component
ParserIndexError == [type |-> "IndexError", what |-> "parser", char |-> "",
                     key |-> None]

\* f"stray {repr(char)} encountered {at_location}"
StrayText(char, last_key) ==
    [type |-> "MSDParserError", what |-> "stray", char |-> char, key |-> last_key]

\* f"Missing semicolon detected after {repr(last_key)} parameter"
MissingSemicolon(last_key) ==
    [type |-> "MSDParserError", what |-> "Missing semicolon", char |-> "",
     key |-> last_key]

----------------------------------------------------------------------------
(* lexer.py: lex_msd *)

LexerInit ==
    [msd_buffer |-> <<>>, inside_parameter |-> FALSE, done_reading |-> FALSE,
     at |-> "loop", matched_text |-> <<>>]

\* the generator runs only while the parser's for loop waits for a token
LexerRuns == pc = "run" /\ consumed = Len(tokens)

\* PatternToken that never looks at inside_parameter
PatternToken_AlwaysInside(pattern, inside) == pattern.token_inside_param

\* `pattern.token_inside_param if inside_parameter else pattern.token_outside_param`
PatternToken(pattern, inside) ==
    IF inside THEN pattern.token_inside_param ELSE pattern.token_outside_param

\* `matched_text.rstrip("\r\n\t ")`
TextBeforeWs(matched_text) == rstrip(matched_text, {"\r", "\n", "\t", " "})

\* lines 219-222: the flag after a token
InsideAfter(inside, token) ==
    IF token = "START_PARAMETER" THEN TRUE
    ELSE IF token = "END_PARAMETER" THEN FALSE
    ELSE inside

\* lines 168-171: read one chunk
LexRead ==
    /\ LexerRuns
    /\ UNCHANGED caller
    /\ lexer.at = "loop"
    /\ ~BufferReady(lexer.msd_buffer, lexer.done_reading)
    /\ ~lexer.done_reading
    /\ LET c == Upto(textio, chunk)
       IN  /\ textio' = From(textio, Len(c))
           /\ lexer' = [lexer EXCEPT !.done_reading = (c = <<>>),
                                     !.msd_buffer = @ \o c]
    /\ UNCHANGED <<input, escapes, strict, chunk, tokens, consumed, parser,
                   yielded, error, pc, written>>

\* lines 184-225: one pattern matches; the token (or, on recovery with text
\* before the whitespace, the first of two tokens) is yielded
LexMatch ==
    /\ LexerRuns
    /\ UNCHANGED caller
    /\ lexer.at = "loop"
    /\ BufferReady(lexer.msd_buffer, lexer.done_reading)
    /\ FirstMatch(lexer.msd_buffer, escapes) # 0
    /\ LET pattern == lexer_patterns(escapes)[FirstMatch(lexer.msd_buffer, escapes)]
           end == RegexMatch(pattern.match, lexer.msd_buffer)
           rest == From(lexer.msd_buffer, end)
           matched_text == Upto(lexer.msd_buffer, end)
           token == PatternToken(pattern, lexer.inside_parameter)
           before == TextBeforeWs(matched_text)
           ws == From(matched_text, Len(before))
       IN  IF Recovers(rest, lexer.inside_parameter, token, matched_text)
           THEN IF before # <<>>
                THEN /\ tokens' = Append(tokens, Token(token, before))
                     /\ lexer' = [lexer EXCEPT !.msd_buffer = rest,
                                               !.at = "line214",
                                               !.matched_text = ws]
                ELSE /\ tokens' = Append(tokens, Token("END_PARAMETER", ws))
                     /\ lexer' = [lexer EXCEPT !.msd_buffer = rest,
                                               !.inside_parameter =
                                                   InsideAfter(@, "END_PARAMETER")]
           ELSE /\ tokens' = Append(tokens, Token(token, matched_text))
                /\ lexer' = [lexer EXCEPT !.msd_buffer = rest,
                                          !.inside_parameter = InsideAfter(@, token)]
    /\ UNCHANGED <<input, escapes, strict, chunk, textio, consumed, parser,
                   yielded, error, pc, written>>

\* lines 216-224 after the yield of line 214: the trailing whitespace leaves
\* as the END_PARAMETER token
LexResume ==
    /\ LexerRuns
    /\ UNCHANGED caller
    /\ lexer.at = "line214"
    /\ tokens' = Append(tokens, Token("END_PARAMETER", lexer.matched_text))
    /\ lexer' = [lexer EXCEPT !.at = "loop", !.matched_text = <<>>,
                              !.inside_parameter = InsideAfter(@, "END_PARAMETER")]
    /\ UNCHANGED <<input, escapes, strict, chunk, textio, consumed, parser,
                   yielded, error, pc, written>>

\* lines 227-229: the pattern loop falls through; the AssertionError leaves
\* lex_msd and, unhandled, parse_msd
LexNoMatch ==
    /\ LexerRuns
    /\ UNCHANGED caller
    /\ lexer.at = "loop"
    /\ BufferReady(lexer.msd_buffer, lexer.done_reading)
    /\ FirstMatch(lexer.msd_buffer, escapes) = 0
    /\ pc' = "error"
    /\ error' = LexerAssertion
    /\ UNCHANGED <<input, escapes, strict, chunk, textio, lexer, tokens,
                   consumed, parser, yielded, written>>

\* the generator returns: both loops have ended
LexerExhausted ==
    /\ lexer.at = "loop"
    /\ lexer.done_reading
    /\ ~BufferReady(lexer.msd_buffer, lexer.done_reading)

----------------------------------------------------------------------------
(* parser.py: parse_msd *)

\* the characters of the model for which str.isspace() holds
Whitespace == {" ", "\t", "\n", "\r"}

\* str.isspace(): at least one character and all of them whitespace
isspace(text) == text # <<>> /\ \A i \in 1..Len(text) : text[i] \in Whitespace

\* str.lstrip()
lstrip(text) == From(text, SpanIn(text, Whitespace))

MSDParameter(components, preamble, comments, escape_positions, suffix) ==
    [components |-> components, preamble |-> preamble, comments |-> comments,
     escape_positions |-> escape_positions, suffix |-> suffix]

\* lines 52-79: the state before the first token
ParserInit ==
    [preamble |-> Some(<<>>), components |-> <<>>, inside_parameter |-> FALSE,
     line_inside_parameter |-> 0, char_inside_parameter |-> 0,
     comments |-> <<>>, escape_positions |-> <<>>, suffix |-> <<>>,
     last_key |-> None]

\* lines 95-96: the stray-text test of strict parsing
IsStray(text) ==
    text # <<>> /\ strict /\ ~isspace(text) /\ text # <<BOM>>

\* WriteOutside with `if preamble:` alone, without `and len(components) == 0`
WriteOutside_TestsPreambleOnly(p, text) ==
    IF ~p.preamble.none
    THEN [p EXCEPT !.preamble = Some(@.value \o text)]
    ELSE [p EXCEPT !.suffix = @ \o text]

\* lines 104-107: text outside a parameter goes to the preamble or the suffix
\* (a StringIO is truthy even when empty)
WriteOutside(p, text) ==
    IF ~p.preamble.none /\ Len(p.components) = 0
    THEN [p EXCEPT !.preamble = Some(@.value \o text)]
    ELSE [p EXCEPT !.suffix = @ \o text]

\* lines 81-107: push_text(text), called while the token loop holds `value`;
\* the result is the exception raised (or NoError) and the state left
push_text(p, text, value) ==
    IF p.inside_parameter
    THEN IF p.components = <<>>
         THEN [raise |-> ParserIndexError, parser |-> p]
         ELSE [raise |-> NoError,
               parser |->
                   [p EXCEPT !.components[Len(p.components)] = @ \o text,
                             !.char_inside_parameter = @ + Len(text),
                             !.line_inside_parameter = @ + count(value, "\n")]]
    ELSE IF IsStray(text)
         THEN [raise |-> StrayText(lstrip(text)[1], p.last_key), parser |-> p]
         ELSE [raise |-> NoError, parser |-> WriteOutside(p, text)]

\* next_component without `inside_parameter = True`
next_component_StaysOutside(p) ==
    [p EXCEPT !.components = Append(@, <<>>),
              !.char_inside_parameter = @ + 1]

\* next_component opening no component after an empty one
next_component_SkipsEmpty(p) ==
    [p EXCEPT !.inside_parameter = TRUE,
              !.components = IF @ # <<>> /\ @[Len(@)] = <<>>
                             THEN @ ELSE Append(@, <<>>),
              !.char_inside_parameter = @ + 1]

\* lines 109-114
next_component(p) ==
    [p EXCEPT !.inside_parameter = TRUE,
              !.components = Append(@, <<>>),
              !.char_inside_parameter = @ + 1]

\* assemble_parameter without `if escapes else None`
assemble_parameter_AlwaysPositions(p) ==
    IF Len(p.components) = 0 THEN <<>>
    ELSE << MSDParameter(p.components, p.preamble, p.comments,
                         Some(p.escape_positions), p.suffix) >>

\* lines 116-131: the parameters assemble_parameter yields (none or one)
assemble_parameter(p) ==
    IF Len(p.components) = 0 THEN <<>>
    ELSE << MSDParameter(p.components,
                         p.preamble,
                         p.comments,
                         IF escapes THEN Some(p.escape_positions) ELSE None,
                         p.suffix) >>

\* reset_state without `if preamble: preamble = None`
reset_state_KeepsPreamble(p) ==
    [p EXCEPT !.components = <<>>,
              !.inside_parameter = TRUE,
              !.line_inside_parameter = 0,
              !.char_inside_parameter = 0,
              !.comments = <<>>,
              !.escape_positions = <<>>,
              !.suffix = <<>>]

\* lines 133-147
reset_state(p) ==
    [p EXCEPT !.preamble = None,
              !.components = <<>>,
              !.inside_parameter = TRUE,
              !.line_inside_parameter = 0,
              !.char_inside_parameter = 0,
              !.comments = <<>>,
              !.escape_positions = <<>>,
              !.suffix = <<>>]

\* `comments[line_inside_parameter] = value` on an insertion-ordered dict
SetComment(comments, line, value) ==
    IF \E i \in 1..Len(comments) : comments[i][1] = line
    THEN [i \in 1..Len(comments) |->
             IF comments[i][1] = line THEN <<line, value>> ELSE comments[i]]
    ELSE Append(comments, <<line, value>>)

\* the for loop holds a token lex_msd has yielded
ParserRuns == pc = "run" /\ consumed < Len(tokens)

NextToken == tokens[consumed + 1]

\* an exception leaves parse_msd
Raise(exc) ==
    /\ pc' = "error"
    /\ error' = exc

\* RaiseFromPushText without the handler's `yield from assemble_parameter()`
RaiseFromPushText_WithoutYield(exc) ==
    /\ yielded' = yielded
    /\ Raise(exc)

\* lines 158-163 and 194-197: `except MSDParserError:` yields the buffered
\* parameter and re-raises; any other exception passes through
RaiseFromPushText(exc) ==
    /\ yielded' = IF exc.type = "MSDParserError" /\ parser.components # <<>>
                  THEN yielded \o assemble_parameter(parser)
                  ELSE yielded
    /\ Raise(exc)

\* lines 157-163
ParseText ==
    /\ ParserRuns
    /\ UNCHANGED caller
    /\ NextToken.token = "TEXT"
    /\ consumed' = consumed + 1
    /\ LET r == push_text(parser, NextToken.text, NextToken.text)
       IN  IF r.raise = NoError
           THEN /\ parser' = r.parser
                /\ UNCHANGED <<yielded, error, pc>>
           ELSE /\ RaiseFromPushText(r.raise)
                /\ UNCHANGED parser
    /\ UNCHANGED <<input, escapes, strict, chunk, textio, lexer, tokens, written>>

\* lines 165-170
ParseStartParameter ==
    /\ ParserRuns
    /\ UNCHANGED caller
    /\ NextToken.token = "START_PARAMETER"
    /\ consumed' = consumed + 1
    /\ IF parser.inside_parameter
       THEN /\ Raise(ParserAssertion)
            /\ UNCHANGED <<parser, yielded>>
       ELSE /\ yielded' = yielded \o assemble_parameter(parser)
            /\ parser' = next_component(IF Len(parser.components) > 0
                                        THEN reset_state(parser)
                                        ELSE parser)
            /\ UNCHANGED <<error, pc>>
    /\ UNCHANGED <<input, escapes, strict, chunk, textio, lexer, tokens, written>>

\* IsMissingSemicolon testing for a bare line feed instead of `!= ";"`
IsMissingSemicolon_OnlyLineFeed(value) == value = <<"\n">> /\ strict

\* IsMissingSemicolon accepting every terminator
IsMissingSemicolon_Never(value) == FALSE

\* line 178: `value != ";" and strict`
IsMissingSemicolon(value) == value # <<";">> /\ strict

\* ParseEndParameter that yields the parameter as soon as its terminator is
\* consumed
ParseEndParameter_YieldsAtTerminator ==
    /\ ParserRuns
    /\ UNCHANGED caller
    /\ NextToken.token = "END_PARAMETER"
    /\ consumed' = consumed + 1
    /\ IF ~parser.inside_parameter
       THEN /\ Raise(ParserAssertion)
            /\ UNCHANGED <<parser, yielded>>
       ELSE /\ parser' = [parser EXCEPT !.inside_parameter = FALSE,
                                        !.last_key = Some(parser.components[1]),
                                        !.suffix = @ \o NextToken.text]
            /\ yielded' = yielded \o assemble_parameter(parser')
            /\ IF IsMissingSemicolon(NextToken.text)
               THEN Raise(MissingSemicolon(Some(parser.components[1])))
               ELSE UNCHANGED <<error, pc>>
    /\ UNCHANGED <<input, escapes, strict, chunk, textio, lexer, tokens, written>>

\* lines 172-181
ParseEndParameter ==
    /\ ParserRuns
    /\ UNCHANGED caller
    /\ NextToken.token = "END_PARAMETER"
    /\ consumed' = consumed + 1
    /\ IF ~parser.inside_parameter
       THEN /\ Raise(ParserAssertion)
            /\ UNCHANGED parser
       ELSE /\ parser' = [parser EXCEPT !.inside_parameter = FALSE,
                                        !.last_key = Some(parser.components[1]),
                                        !.suffix = @ \o NextToken.text]
            /\ IF IsMissingSemicolon(NextToken.text)
               THEN Raise(MissingSemicolon(Some(parser.components[1])))
               ELSE UNCHANGED <<error, pc>>
    /\ UNCHANGED <<input, escapes, strict, chunk, textio, lexer, tokens,
                   yielded, written>>

\* lines 183-185
ParseNextComponent ==
    /\ ParserRuns
    /\ UNCHANGED caller
    /\ NextToken.token = "NEXT_COMPONENT"
    /\ consumed' = consumed + 1
    /\ IF ~parser.inside_parameter
       THEN /\ Raise(ParserAssertion)
            /\ UNCHANGED parser
       ELSE /\ parser' = next_component(parser)
            /\ UNCHANGED <<error, pc>>
    /\ UNCHANGED <<input, escapes, strict, chunk, textio, lexer, tokens,
                   yielded, written>>

\* RecordEscape without `char_inside_parameter += 1`
RecordEscape_BackslashNotCounted(p) ==
    IF p.inside_parameter
    THEN [p EXCEPT !.escape_positions = Append(@, p.char_inside_parameter)]
    ELSE p

\* lines 189-192: the escape's position is recorded and the `\` counted
RecordEscape(p) ==
    IF p.inside_parameter
    THEN [p EXCEPT !.escape_positions = Append(@, p.char_inside_parameter),
                   !.char_inside_parameter = @ + 1]
    ELSE p

\* lines 187-197
ParseEscape ==
    /\ ParserRuns
    /\ UNCHANGED caller
    /\ NextToken.token = "ESCAPE"
    /\ consumed' = consumed + 1
    /\ LET r == push_text(RecordEscape(parser), <<NextToken.text[2]>>,
                          NextToken.text)
       IN  IF r.raise = NoError
           THEN /\ parser' = r.parser
                /\ UNCHANGED <<yielded, error, pc>>
           ELSE /\ RaiseFromPushText(r.raise)
                /\ parser' = RecordEscape(parser)
    /\ UNCHANGED <<input, escapes, strict, chunk, textio, lexer, tokens, written>>

\* ParseComment sending a comment outside a parameter through push_text, so
\* that strict parsing flags it as stray text
ParseComment_ThroughPushText ==
    /\ ParserRuns
    /\ UNCHANGED caller
    /\ NextToken.token = "COMMENT"
    /\ consumed' = consumed + 1
    /\ IF parser.inside_parameter
       THEN /\ parser' =
                   [parser EXCEPT
                       !.comments = SetComment(@, parser.line_inside_parameter,
                                               NextToken.text),
                       !.char_inside_parameter = @ + Len(NextToken.text)]
            /\ UNCHANGED <<yielded, error, pc>>
       ELSE IF IsStray(NextToken.text)
       THEN /\ RaiseFromPushText(StrayText("/", parser.last_key))
            /\ UNCHANGED parser
       ELSE /\ parser' = WriteOutside(parser, NextToken.text)
            /\ UNCHANGED <<yielded, error, pc>>
    /\ UNCHANGED <<input, escapes, strict, chunk, textio, lexer, tokens, written>>

\* lines 199-207
ParseComment ==
    /\ ParserRuns
    /\ UNCHANGED caller
    /\ NextToken.token = "COMMENT"
    /\ consumed' = consumed + 1
    /\ parser' =
           IF parser.inside_parameter
           THEN [parser EXCEPT
                    !.comments = SetComment(@, parser.line_inside_parameter,
                                            NextToken.text),
                    !.char_inside_parameter = @ + Len(NextToken.text)]
           ELSE WriteOutside(parser, NextToken.text)
    /\ UNCHANGED <<input, escapes, strict, chunk, textio, lexer, tokens,
                   yielded, error, pc, written>>

\* lines 211-212: the token stream has ended; the last parameter is yielded
\* and parse_msd returns
ParseEndOfInput ==
    /\ LexerRuns
    /\ UNCHANGED caller
    /\ LexerExhausted
    /\ yielded' = yielded \o assemble_parameter(parser)
    /\ pc' = "done"
    /\ UNCHANGED <<input, escapes, strict, chunk, textio, lexer, tokens,
                   consumed, parser, error, written>>

----------------------------------------------------------------------------
(* parameter.py: MSDParameter.serialize *)

ValueError == [type |-> "ValueError", what |-> "serialize", char |-> "",
               key |-> None]

\* a failed `assert` of _serialize_components_exact
SerializeAssertion == [type |-> "AssertionError", what |-> "serialize",
                       char |-> "", key |-> None]

\* `component` read after a for loop over no components
UnboundLocalError == [type |-> "UnboundLocalError", what |-> "serialize",
                      char |-> "", key |-> None]

\* _MUST_ESCAPE without "//"
_MUST_ESCAPE_WithoutComment == << <<":">>, <<";">> >>

_MUST_ESCAPE == << <<"/", "/">>, <<":">>, <<";">> >>

\* _SHOULD_ESCAPE without "#"
_SHOULD_ESCAPE_WithoutPound == << <<"\\">> >>

_SHOULD_ESCAPE == << <<"\\">>, <<"#">> >>

\* whether s starts with the non-empty string `old`
StartsWith(s, old) == Len(s) >= Len(old) /\ SubSeq(s, 1, Len(old)) = old

\* `old in s`
Contains(s, old) ==
    \E i \in 1..(Len(s) - Len(old) + 1) : SubSeq(s, i, i + Len(old) - 1) = old

\* str.replace(old, new): the non-overlapping occurrences, left to right
RECURSIVE replace(_, _, _)
replace(s, old, new) ==
    IF s = <<>> THEN <<>>
    ELSE IF StartsWith(s, old) THEN new \o replace(From(s, Len(old)), old, new)
    ELSE <<s[1]>> \o replace(Tail(s), old, new)

\* reduce(lambda key, esc: key.replace(esc, f"\\{esc}"), escs, component)
RECURSIVE EscapeAll(_, _)
EscapeAll(component, escs) ==
    IF escs = <<>> THEN component
    ELSE CHOOSE out \in
             {EscapeAll(key, Tail(escs)) :
                 key \in {replace(component, Head(escs), <<"\\">> \o Head(escs))}} :
             TRUE

\* lines 98-120: the string returned, or the ValueError raised
_serialize_fragment_without_comments(component, esc) ==
    IF esc
    THEN [raise |-> NoError,
          out |-> EscapeAll(component, _SHOULD_ESCAPE \o _MUST_ESCAPE)]
    ELSE IF \E i \in 1..Len(_MUST_ESCAPE) : Contains(component, _MUST_ESCAPE[i])
    THEN [raise |-> ValueError, out |-> <<>>]
    ELSE [raise |-> NoError, out |-> component]

\* UNTIL_NEWLINE = ([^\r\n]*)(\r?\n) matched at the start of the component:
\* the lengths of its two groups, or matched = FALSE
UNTIL_NEWLINE(component) ==
    LET k == SpanNotIn(component, {"\r", "\n"})
    IN  IF Len(component) > k /\ component[k + 1] = "\n"
        THEN [matched |-> TRUE, g1 |-> k, g2 |-> 1]
        ELSE IF Len(component) > k + 1 /\ component[k + 1] = "\r"
                /\ component[k + 2] = "\n"
        THEN [matched |-> TRUE, g1 |-> k, g2 |-> 2]
        ELSE [matched |-> FALSE, g1 |-> 0, g2 |-> 0]

\* match_next_n_lines(n) = ^(?:[^\r\n]*(?:\r?\n)){n}[^\r\n]* matched at the
\* start of the component: the end of the match, or -1
RECURSIVE match_next_n_lines(_, _)
match_next_n_lines(n, component) ==
    IF n = 0 THEN SpanNotIn(component, {"\r", "\n"})
    ELSE LET m == UNTIL_NEWLINE(component)
             rest == match_next_n_lines(n - 1, From(component, m.g1 + m.g2))
         IN  IF ~m.matched \/ rest = -1 THEN -1 ELSE m.g1 + m.g2 + rest

\* sorted(...) of a sequence of integers
RECURSIVE sorted(_)
sorted(xs) ==
    IF xs = <<>> THEN <<>>
    ELSE LET m == CHOOSE i \in 1..Len(xs) : \A j \in 1..Len(xs) : xs[i] <= xs[j]
         IN  <<xs[m]>> \o sorted(SubSeq(xs, 1, m - 1) \o SubSeq(xs, m + 1, Len(xs)))

\* sorted(comments.keys()) of the dict built from the (line, comment) pairs
CommentLines(comments) ==
    LET keys == {comments[i][1] : i \in 1..Len(comments)}
        RECURSIVE asc(_)
        asc(ks) == IF ks = {} THEN <<>>
                   ELSE LET m == CHOOSE k \in ks : \A j \in ks : k <= j
                        IN  <<m>> \o asc(ks \ {m})
    IN  asc(keys)

\* comments[line] of that dict: a later pair replaces an earlier one
CommentAt(comments, line) ==
    LET hits == {i \in 1..Len(comments) : comments[i][1] = line}
    IN  comments[CHOOSE i \in hits : \A j \in hits : j <= i][2]

\* lines 133-140: the locals of _serialize_components_exact
ExactInit(p) ==
    [out |-> <<>>,
     comments |-> p.comments,
     escape_positions |-> sorted(p.escape_positions.value),
     lines_with_comments |-> CommentLines(p.comments),
     line |-> 0,
     position |-> 1,
     component |-> None,
     raise |-> NoError]

\* lines 142-157
RECURSIVE write_and_pop_escapes(_, _)
write_and_pop_escapes(st, fragment) ==
    IF /\ fragment # <<>>
       /\ st.escape_positions # <<>>
       /\ st.position + Len(fragment) > st.escape_positions[1]
    THEN LET next_escape == st.escape_positions[1] - st.position
         IN  write_and_pop_escapes(
                 [st EXCEPT !.out = @ \o Upto(fragment, next_escape) \o <<"\\">>,
                            !.position = st.escape_positions[1] + 1,
                            !.escape_positions = Tail(@)],
                 From(fragment, next_escape))
    ELSE [st EXCEPT !.out = @ \o fragment, !.position = @ + Len(fragment)]

\* lines 160-199: `while component and lines_with_comments`; the result holds
\* what is left of the component when the loop ends
RECURSIVE CommentLoop(_, _)
CommentLoop(st, component) ==
    IF component = <<>> \/ st.lines_with_comments = <<>>
    THEN [st EXCEPT !.component = Some(component)]
    ELSE LET line_with_comment == st.lines_with_comments[1]
         IN  IF st.line > line_with_comment
             THEN [st EXCEPT !.raise = SerializeAssertion]
             ELSE IF st.line = line_with_comment
             THEN LET match == UNTIL_NEWLINE(component)
                      fragment == Upto(component, match.g1)
                      newline == SubSeq(component, match.g1 + 1,
                                        match.g1 + match.g2)
                      s1 == write_and_pop_escapes(st, fragment)
                      s2 == write_and_pop_escapes(s1, CommentAt(st.comments, st.line))
                      s3 == write_and_pop_escapes(s2, newline)
                  IN  IF ~match.matched
                      THEN [write_and_pop_escapes(st, component)
                               EXCEPT !.component = Some(<<>>)]
                      ELSE CommentLoop(
                               [s3 EXCEPT !.lines_with_comments = Tail(@),
                                          !.line = @ + 1],
                               From(component, match.g1 + match.g2))
             ELSE LET lines_to_skip == line_with_comment - st.line
                      end == match_next_n_lines(lines_to_skip, component)
                  IN  IF end = -1
                      THEN [write_and_pop_escapes(st, component)
                               EXCEPT !.line = @ + count(component, "\n"),
                                      !.component = Some(component)]
                      ELSE CommentLoop(
                               [write_and_pop_escapes(st, Upto(component, end))
                                   EXCEPT !.line = @ + lines_to_skip],
                               From(component, end))

\* lines 159-203: `for c, component in enumerate(self.components)`, from the
\* c-th component (1-based) on
RECURSIVE ComponentsLoop(_, _, _)
ComponentsLoop(st, components, c) ==
    IF st.raise # NoError \/ c > Len(components) THEN st
    ELSE LET s1 == CommentLoop(st, components[c])
             s2 == IF s1.raise = NoError /\ c # Len(components)
                   THEN [s1 EXCEPT !.out = @ \o <<":">>, !.position = @ + 1]
                   ELSE s1
         IN  ComponentsLoop(s2, components, c + 1)

\* lines 205-212: the closing checks and the leftover of the last component
ExactFinish(st) ==
    IF st.raise # NoError THEN st
    ELSE IF Len(st.lines_with_comments) # 0
    THEN [st EXCEPT !.raise = SerializeAssertion]
    ELSE IF st.component.none
    THEN [st EXCEPT !.raise = UnboundLocalError]
    ELSE LET s1 == IF st.component.value # <<>>
                   THEN write_and_pop_escapes(st, st.component.value)
                   ELSE st
         IN  IF s1.escape_positions # <<>>
             THEN [s1 EXCEPT !.raise = SerializeAssertion]
             ELSE s1

\* lines 122-212
_serialize_components_exact(p, esc) ==
    IF ~esc /\ ~p.escape_positions.none /\ p.escape_positions.value # <<>>
    THEN [raise |-> ValueError, out |-> <<>>]
    ELSE LET st == ExactFinish(ComponentsLoop(ExactInit(p), p.components, 1))
         IN  [raise |-> st.raise, out |-> st.out]

\* lines 236-244: the components without comments, joined by ":"
RECURSIVE SerializePlain(_, _, _)
SerializePlain(components, c, esc) ==
    IF c > Len(components) THEN [raise |-> NoError, out |-> <<>>]
    ELSE LET f == _serialize_fragment_without_comments(components[c], esc)
             rest == SerializePlain(components, c + 1, esc)
         IN  IF f.raise # NoError THEN f
             ELSE IF rest.raise # NoError THEN rest
             ELSE [raise |-> NoError,
                   out |-> f.out
                           \o (IF c # Len(components) THEN <<":">> ELSE <<>>)
                           \o rest.out]

\* lines 214-248: what serialize writes to the file, or the exception raised
serialize(p, esc, exact) ==
    LET head == (IF exact /\ ~p.preamble.none THEN p.preamble.value ELSE <<>>)
                \o <<"#">>
        body == IF exact /\ p.comments # <<>>
                THEN _serialize_components_exact(p, esc)
                ELSE SerializePlain(p.components, 1, esc)
        tail == IF exact THEN p.suffix ELSE <<";">>
    IN  IF body.raise # NoError THEN [raise |-> body.raise, out |-> <<>>]
        ELSE [raise |-> NoError, out |-> head \o body.out \o tail]

\* lines 253-256
stringify(p, esc, exact) == serialize(p, esc, exact)

\* the caller, once parse_msd is exhausted:
\* "".join(p.stringify(exact=True) for p in parameters)
Stringify ==
    /\ pc = "done"
    /\ UNCHANGED caller
    /\ Len(written) < Len(yielded)
    /\ \A i \in 1..Len(written) : written[i].raise = NoError
    /\ written' = Append(written, stringify(yielded[Len(written) + 1], TRUE, TRUE))
    /\ UNCHANGED <<input, escapes, strict, chunk, textio, lexer, tokens,
                   consumed, parser, yielded, error, pc>>

\* the caller has done nothing but call parse_msd
NoCall ==
    [op |-> "parse", parameter |-> MSDParameter(<<>>, None, <<>>, None, <<>>),
     escapes |-> TRUE, exact |-> FALSE, parsed |-> FALSE, yielded |-> <<>>,
     error |-> NoError]

----------------------------------------------------------------------------
(* The specification *)

Init ==
    /\ input \in Inputs
    /\ escapes \in BOOLEAN
    /\ strict \in BOOLEAN
    /\ chunk \in ChunkSizes
    /\ textio = input
    /\ lexer = LexerInit
    /\ tokens = <<>>
    /\ consumed = 0
    /\ parser = ParserInit
    /\ yielded = <<>>
    /\ error = NoError
    /\ pc = "run"
    /\ written = <<>>
    /\ caller = NoCall

Next ==
    \/ LexRead
    \/ LexMatch
    \/ LexResume
    \/ LexNoMatch
    \/ ParseText
    \/ ParseStartParameter
    \/ ParseEndParameter
    \/ ParseNextComponent
    \/ ParseEscape
    \/ ParseComment
    \/ ParseEndOfInput
    \/ Stringify

Spec == Init /\ [][Next]_vars

\* tests/test_parser.py, test_file_and_string_args: the caller has drained
\* parse_msd(file=...) and now parses the same document with
\* parse_msd(string=...), which reads it in one chunk
ParseString ==
    /\ pc \in {"done", "error"}
    /\ caller.op = "parse"
    /\ caller' = [NoCall EXCEPT !.op = "file", !.yielded = yielded,
                                !.error = error]
    /\ chunk' = CHUNK
    /\ textio' = input
    /\ lexer' = LexerInit
    /\ tokens' = <<>>
    /\ consumed' = 0
    /\ parser' = ParserInit
    /\ yielded' = <<>>
    /\ error' = NoError
    /\ pc' = "run"
    /\ UNCHANGED <<input, escapes, strict, written>>

NextFileAndString ==
    \/ LexRead
    \/ LexMatch
    \/ LexResume
    \/ LexNoMatch
    \/ ParseText
    \/ ParseStartParameter
    \/ ParseEndParameter
    \/ ParseNextComponent
    \/ ParseEscape
    \/ ParseComment
    \/ ParseEndOfInput
    \/ ParseString

\* a document parsed from a file read in chunks, then as a string
SpecFileAndString == Init /\ [][NextFileAndString]_vars

\* the caller has drained parse_msd(string=..., strict=True), or caught what
\* it raised, and parses the same document again with strict=False
ParseLenient ==
    /\ pc \in {"done", "error"}
    /\ caller.op = "parse"
    /\ strict
    /\ caller' = [NoCall EXCEPT !.op = "strict", !.yielded = yielded,
                                !.error = error]
    /\ strict' = FALSE
    /\ textio' = input
    /\ lexer' = LexerInit
    /\ tokens' = <<>>
    /\ consumed' = 0
    /\ parser' = ParserInit
    /\ yielded' = <<>>
    /\ error' = NoError
    /\ pc' = "run"
    /\ UNCHANGED <<input, escapes, chunk, written>>

InitStrict == Init /\ strict

NextStrictAndLenient ==
    \/ LexRead
    \/ LexMatch
    \/ LexResume
    \/ LexNoMatch
    \/ ParseText
    \/ ParseStartParameter
    \/ ParseEndParameter
    \/ ParseNextComponent
    \/ ParseEscape
    \/ ParseComment
    \/ ParseEndOfInput
    \/ ParseLenient

\* a document parsed in strict mode, then in lenient mode
SpecStrictAndLenient == InitStrict /\ [][NextStrictAndLenient]_vars

\* components that are a run of three and of four "/"
SlashRuns == {<<"/", "/", "/">>, <<"/", "/", "/", "/">>}

\* the component tuples a caller builds: none, one or two components
ComponentTuples ==
    LET texts == SeqsUpTo(Sigma, MaxComponentChars)
    IN  {<<>>} \cup {<<t>> : t \in texts \cup SlashRuns}
        \cup {<<SubSeq(t, 1, i), SubSeq(t, i + 1, Len(t))>> :
                  <<t, i>> \in {<<u, j>> \in texts \X (0..MaxComponentChars) :
                                   j <= Len(u)}}

\* MSDParameter(components=..., comments=..., escape_positions=..., suffix=";")
\* as tests/test_parameter.py builds them
BuiltParameters ==
    {MSDParameter(c, None, cm, ep, <<";">>) :
        c \in ComponentTuples,
        cm \in {<<>>, << <<0, <<"/", "/">>>> >>, << <<1, <<"/", "/">>>> >>},
        ep \in {None, Some(<<>>), Some(<<1>>)}}

\* p.stringify(escapes=..., exact=...) for a parameter the caller built
BuiltCalls ==
    {[NoCall EXCEPT !.op = "stringify", !.parameter = p, !.escapes = esc,
                    !.exact = ex] :
        p \in BuiltParameters, esc \in BOOLEAN, ex \in BOOLEAN}

\* the caller has drained parse_msd(string=...) and picks one of the
\* parameters it yielded to stringify
StringifyYielded ==
    /\ pc = "done"
    /\ caller.op = "parse"
    /\ \E k \in 1..Len(yielded), esc \in BOOLEAN, ex \in BOOLEAN :
           caller' = [NoCall EXCEPT !.op = "stringify",
                                    !.parameter = yielded[k],
                                    !.escapes = esc, !.exact = ex,
                                    !.parsed = TRUE]
    /\ pc' = "call"
    /\ UNCHANGED <<input, escapes, strict, chunk, textio, lexer, tokens,
                   consumed, parser, yielded, error, written>>

\* parse_msd(string=p.stringify(escapes=e, exact=...), escapes=e): the string
\* is built, or stringify raises; parse_msd starts on it, lenient, with the
\* escapes flag the string was written with
StringifyAndParse ==
    /\ pc = "call"
    /\ written' = <<stringify(caller.parameter, caller.escapes, caller.exact)>>
    /\ input' = written'[1].out
    /\ textio' = input'
    /\ error' = written'[1].raise
    /\ pc' = IF error' = NoError THEN "run" ELSE "error"
    /\ escapes' = caller.escapes
    /\ strict' = FALSE
    /\ chunk' = CHUNK
    /\ lexer' = LexerInit
    /\ tokens' = <<>>
    /\ consumed' = 0
    /\ parser' = ParserInit
    /\ yielded' = <<>>
    /\ UNCHANGED caller

\* either a document is parsed as a string first, or the caller starts from a
\* parameter it built
InitStringify ==
    /\ \/ /\ input \in Inputs
          /\ escapes \in BOOLEAN
          /\ caller = NoCall
          /\ pc = "run"
       \/ /\ input = <<>>
          /\ escapes = TRUE
          /\ caller \in BuiltCalls
          /\ pc = "call"
    /\ strict = FALSE
    /\ chunk = CHUNK
    /\ textio = input
    /\ lexer = LexerInit
    /\ tokens = <<>>
    /\ consumed = 0
    /\ parser = ParserInit
    /\ yielded = <<>>
    /\ error = NoError
    /\ written = <<>>

NextStringify ==
    \/ LexRead
    \/ LexMatch
    \/ LexResume
    \/ LexNoMatch
    \/ ParseText
    \/ ParseStartParameter
    \/ ParseEndParameter
    \/ ParseNextComponent
    \/ ParseEscape
    \/ ParseComment
    \/ ParseEndOfInput
    \/ StringifyYielded
    \/ StringifyAndParse

\* a parameter stringified and the string parsed
SpecStringify == InitStringify /\ [][NextStringify]_vars

----------------------------------------------------------------------------
(* What a run shows: the token stream read against the document *)

\* the concatenated text of a token sequence
TokenText(toks) == Concat([i \in 1..Len(toks) |-> toks[i].text])

CountIn(toks, t) == Cardinality({i \in 1..Len(toks) : toks[i].token = t})

SetMin(S) == CHOOSE x \in S : \A y \in S : x <= y

Last(seq) == seq[Len(seq)]

\* token i was emitted inside a parameter: more "#" than terminators precede it
InsideBefore(i) ==
    CountIn(SubSeq(tokens, 1, i - 1), "START_PARAMETER")
        > CountIn(SubSeq(tokens, 1, i - 1), "END_PARAMETER")

\* the character of the document that follows token i, "" at its end
NextInputChar(i) ==
    LET off == Len(TokenText(SubSeq(tokens, 1, i)))
    IN  IF off < Len(input) THEN input[off + 1] ELSE ""

\* the text has a line break and only spaces or tabs after its last one
EndsInBlankLine(text) ==
    \E n \in 1..Len(text) :
        /\ text[n] \in {"\r", "\n"}
        /\ \A j \in (n + 1)..Len(text) : text[j] \in {" ", "\t"}

\* the index of the k-th START_PARAMETER token
StartIndex(k) ==
    CHOOSE i \in 1..Len(tokens) :
        /\ tokens[i].token = "START_PARAMETER"
        /\ CountIn(SubSeq(tokens, 1, i), "START_PARAMETER") = k

\* the index of the token that ends the k-th parameter's body: its terminator,
\* or 0 while it has none among the tokens taken
EndIndex(k) ==
    LET stops == {i \in (StartIndex(k) + 1)..consumed :
                     tokens[i].token \in {"END_PARAMETER", "START_PARAMETER"}}
    IN  IF stops = {} THEN 0 ELSE SetMin(stops)

\* the tokens of the k-th parameter between its "#" and its terminator
Body(k) ==
    SubSeq(tokens, StartIndex(k) + 1,
           IF EndIndex(k) = 0 THEN consumed ELSE EndIndex(k) - 1)

\* the components a body spells: TEXT adds its text, ESCAPE its second
\* character, NEXT_COMPONENT opens a component, COMMENT adds nothing
RECURSIVE ComponentsOf(_, _)
ComponentsOf(body, acc) ==
    IF body = <<>> THEN acc
    ELSE LET t == Head(body)
         IN  ComponentsOf(Tail(body),
                 CASE t.token = "NEXT_COMPONENT" -> Append(acc, <<>>)
                   [] t.token = "TEXT" -> [acc EXCEPT ![Len(acc)] = @ \o t.text]
                   [] t.token = "ESCAPE" ->
                          [acc EXCEPT ![Len(acc)] = @ \o <<t.text[2]>>]
                   [] OTHER -> acc)

BodyComponents(k) == ComponentsOf(Body(k), << <<>> >>)

\* the offsets of a body's ESCAPE tokens, the body starting at `offset`
RECURSIVE EscapeOffsets(_, _)
EscapeOffsets(body, offset) ==
    IF body = <<>> THEN <<>>
    ELSE (IF Head(body).token = "ESCAPE" THEN <<offset>> ELSE <<>>)
         \o EscapeOffsets(Tail(body), offset + Len(Head(body).text))

\* the k-th parameter as the document spells it, from its "#"
RawParameter(k) == <<"#">> \o TokenText(Body(k))

\* a character that is neither whitespace nor the byte-order mark
HasStrayChar(text) == \E i \in 1..Len(text) : text[i] \notin Whitespace \cup {BOM}

\* the caller has stringified every parameter, or stopped at an exception
StringifyEnded ==
    /\ pc = "done"
    /\ \/ Len(written) = Len(yielded)
       \/ \E i \in 1..Len(written) : written[i].raise # NoError

----------------------------------------------------------------------------
(* The claims *)

\* C1: exact round trip.  For a document parsed in lenient mode with
\* escapes=True that holds at least one parameter, the stringify(exact=True)
\* of the yielded parameters, concatenated in order, is the document again.
C1_ExactRoundTrip ==
    (StringifyEnded /\ ~strict /\ escapes /\ yielded # <<>>)
        => /\ \A i \in 1..Len(written) : written[i].raise = NoError
           /\ Concat([i \in 1..Len(written) |-> written[i].out]) = input

\* C2: lossless tokenization.  When lex_msd has stopped (it returned, or it
\* raised), the texts of the tokens it emitted, concatenated, are the document.
C2_LosslessTokenization ==
    (pc = "done" \/ error = LexerAssertion) => TokenText(tokens) = input

\* C3: missing-terminator recovery.  Inside a parameter, a text run that ends
\* in a line break followed only by spaces or tabs, with "#" the next
\* character of the document, is never emitted whole: a recovered terminator
\* is all whitespace, follows text that ends in none, is followed by "#" as
\* START_PARAMETER; and in lenient mode the parameter it ends is yielded on
\* its own, without that whitespace, which becomes its suffix.
C3_MissingTerminatorRecovery ==
    /\ \A i \in 1..Len(tokens) :
           ~ /\ tokens[i].token = "TEXT"
             /\ InsideBefore(i)
             /\ EndsInBlankLine(tokens[i].text)
             /\ NextInputChar(i) = "#"
    /\ \A i \in 1..Len(tokens) :
           (tokens[i].token = "END_PARAMETER" /\ tokens[i].text # <<";">>)
               => /\ isspace(tokens[i].text)
                  /\ EndsInBlankLine(tokens[i].text)
                  /\ (i > 1 /\ tokens[i - 1].token = "TEXT")
                         => Last(tokens[i - 1].text) \notin Whitespace
                  /\ NextInputChar(i) = "#"
                  /\ i < Len(tokens)
                         => tokens[i + 1] = Token("START_PARAMETER", <<"#">>)
    /\ ~strict =>
           \A k \in 1..CountIn(SubSeq(tokens, 1, consumed), "START_PARAMETER") :
               LET e == EndIndex(k)
               IN  (e # 0 /\ tokens[e].token = "END_PARAMETER"
                          /\ tokens[e].text # <<";">> /\ consumed > e)
                       => /\ Len(yielded) >= k
                          /\ yielded[k].components = BodyComponents(k)
                          /\ yielded[k].suffix = tokens[e].text

\* C4: alternation.  In the token stream START_PARAMETER and END_PARAMETER
\* alternate, starting with START_PARAMETER: a START_PARAMETER has as many
\* terminators as "#" tokens before it, an END_PARAMETER one "#" more.
C4_Alternation ==
    \A i \in 1..Len(tokens) :
        LET starts == CountIn(SubSeq(tokens, 1, i - 1), "START_PARAMETER")
            ends == CountIn(SubSeq(tokens, 1, i - 1), "END_PARAMETER")
        IN  /\ tokens[i].token = "START_PARAMETER" => starts = ends
            /\ tokens[i].token = "END_PARAMETER" => starts = ends + 1

\* C4's case: two parameters, one of them ended by a recovered terminator
C4_Witness ==
    /\ CountIn(tokens, "START_PARAMETER") >= 2
    /\ CountIn(tokens, "END_PARAMETER") >= 2
    /\ \E i \in 1..Len(tokens) :
           tokens[i].token = "END_PARAMETER" /\ tokens[i].text # <<";">>

\* C5: lenient mode never fails.  With strict=False no run of parse_msd ends
\* in an exception.
C5_LenientNeverFails == ~strict => pc # "error"

\* C6: the lexer is total.  Whenever the lexer matches against its buffer some
\* pattern matches, and the "no regex matches" assertion is never raised.
C6_LexerTotal ==
    /\ (lexer.at = "loop" /\ BufferReady(lexer.msd_buffer, lexer.done_reading))
           => FirstMatch(lexer.msd_buffer, escapes) # 0
    /\ error # LexerAssertion

\* C7: strict stray text.  With strict=True, once the parser has taken, outside
\* any parameter, a TEXT token holding a character other than whitespace (the
\* byte-order mark counted as whitespace, as MSDParserError documents) or an
\* ESCAPE token escaping such a character,
\* the run has ended in the stray-text MSDParserError; every parameter
\* terminated before it has been yielded, and the error names the key of the
\* last of them, or no key ("at start of document") when there is none.
C7_StrictStrayText ==
    (/\ strict
     /\ consumed > 0
     /\ ~InsideBefore(consumed)
     /\ \/ /\ tokens[consumed].token = "TEXT"
           /\ HasStrayChar(tokens[consumed].text)
        \/ /\ tokens[consumed].token = "ESCAPE"
           /\ HasStrayChar(<<tokens[consumed].text[2]>>))
        => LET n == CountIn(SubSeq(tokens, 1, consumed), "END_PARAMETER")
           IN  /\ pc = "error"
               /\ error.type = "MSDParserError"
               /\ error.what = "stray"
               /\ error.key = IF n = 0 THEN None ELSE Some(BodyComponents(n)[1])
               /\ Len(yielded) = n
               /\ \A k \in 1..n : yielded[k].components = BodyComponents(k)

\* C7's case: stray text after a terminated parameter with a non-empty key,
\* that parameter yielded before the error
C7_Witness ==
    /\ strict
    /\ pc = "error"
    /\ error.what = "stray"
    /\ error.key = Some(<<"A">>)
    /\ Len(yielded) = 1
    /\ yielded[1].components = << <<"A">>, <<"B">> >>

\* C8: strict missing semicolon.  With strict=True, once the parser has taken
\* an END_PARAMETER token whose text is not ";", the run has ended in the
\* missing-semicolon MSDParserError naming the key of the parameter it closed.
C8_StrictMissingSemicolon ==
    (/\ strict
     /\ consumed > 0
     /\ tokens[consumed].token = "END_PARAMETER"
     /\ tokens[consumed].text # <<";">>)
        => /\ pc = "error"
           /\ error = MissingSemicolon(Some(
                  BodyComponents(CountIn(SubSeq(tokens, 1, consumed),
                                         "START_PARAMETER"))[1]))

\* C8's case: a recovered terminator closes a parameter with a key and a
\* value, after an earlier parameter was yielded
C8_Witness ==
    /\ strict
    /\ pc = "error"
    /\ error = MissingSemicolon(Some(<<"E">>))
    /\ tokens[consumed] = Token("END_PARAMETER", <<"\n">>)
    /\ Len(yielded) = 1

\* C9: end of input.  When the whole document has been read and the run has
\* stopped short of no parser error, a parameter still open has been yielded
\* with the components read so far and an empty suffix; and a document
\* without "#" yields no parameter.
C9_EndOfInput ==
    (pc # "run" /\ error.type # "MSDParserError")
        => /\ parser.inside_parameter
                  => /\ yielded # <<>>
                     /\ Last(yielded).components = parser.components
                     /\ Last(yielded).suffix = <<>>
           /\ (\A i \in 1..Len(input) : input[i] # "#") => yielded = <<>>

\* C10: escape transparency.  With escapes=True every yielded parameter's
\* escape_positions are, in increasing order, the offsets from its "#" of its
\* ESCAPE tokens (comments and earlier backslashes counted), each of them a
\* backslash of the document, and its components hold the escaped characters
\* without the backslashes.
C10_EscapeTransparency ==
    escapes =>
        \A k \in 1..Len(yielded) :
            LET pos == yielded[k].escape_positions.value
            IN  /\ yielded[k].escape_positions = Some(EscapeOffsets(Body(k), 1))
                /\ \A i \in 1..Len(pos) : RawParameter(k)[pos[i] + 1] = "\\"
                /\ \A i \in 1..(Len(pos) - 1) : pos[i] < pos[i + 1]
                /\ yielded[k].components = BodyComponents(k)

\* C10's case: a parameter with a comment and, after it, two more escapes
C10_Witness ==
    /\ escapes
    /\ \E k \in 1..Len(yielded) :
           /\ Len(yielded[k].escape_positions.value) >= 3
           /\ yielded[k].comments # <<>>
           /\ Len(yielded[k].components) >= 2

\* the line breaks of a text: LF, CR LF, or a CR on its own
LineBreaks(text) ==
    Cardinality({i \in 1..Len(text) :
                    \/ text[i] = "\n"
                    \/ text[i] = "\r" /\ (i = Len(text) \/ text[i + 1] # "\n")})

\* the (line, text) pairs of a body's COMMENT tokens, in order: the line is
\* the number of line breaks of the body before the comment
CommentsOf(body) ==
    LET at == {i \in 1..Len(body) : body[i].token = "COMMENT"}
        nth(n) == CHOOSE i \in at : Cardinality({j \in at : j <= i}) = n
    IN  [n \in 1..Cardinality(at) |->
            <<LineBreaks(TokenText(SubSeq(body, 1, nth(n) - 1))),
              body[nth(n)].text>>]

\* C11: comment interleaving.  Every COMMENT token runs from "//" up to, and
\* not including, a line terminator or the end of the document; a yielded
\* parameter's comments are the comments of its body, each with the number of
\* line breaks between the "#" and the comment, and its components are the
\* body's text without them (a ":", ";" or "#" inside a comment does nothing).
C11_CommentInterleaving ==
    /\ \A i \in 1..Len(tokens) :
           tokens[i].token = "COMMENT"
               => /\ SubSeq(tokens[i].text, 1, 2) = <<"/", "/">>
                  /\ \A j \in 1..Len(tokens[i].text) :
                         tokens[i].text[j] \notin {"\r", "\n"}
                  /\ NextInputChar(i) \in {"\r", "\n", ""}
    /\ \A k \in 1..Len(yielded) :
           /\ yielded[k].comments = CommentsOf(Body(k))
           /\ yielded[k].components = BodyComponents(k)

\* a component holds one of the control substrings "//", ":" or ";"
HasControlSubstring(components) ==
    \E c \in 1..Len(components), sub \in {<<"/", "/">>, <<":">>, <<";">>} :
        Contains(components[c], sub)

\* the caller stringified a parameter with these flags, and the call and the
\* parse of its result, if it returned one, have ended
Stringified(esc, exact) ==
    /\ caller.op = "stringify"
    /\ caller.escapes = esc
    /\ caller.exact = exact
    /\ pc \in {"done", "error"}

\* C12: normalized round trip.  For a parameter p with at least one component
\* and no "//", ":" or ";" in its components, parse_msd of
\* p.stringify(exact=False) yields exactly one parameter, and its components
\* are p.components.
C12_NormalizedRoundTrip ==
    (/\ Stringified(TRUE, FALSE)
     /\ Len(caller.parameter.components) >= 1
     /\ ~HasControlSubstring(caller.parameter.components))
        => /\ pc = "done"
           /\ written[1].raise = NoError
           /\ Len(yielded) = 1
           /\ yielded[1].components = caller.parameter.components

\* C12's case: two components, a line feed and then "#" in one of them, come
\* back from the escaped string
C12_Witness ==
    /\ Stringified(TRUE, FALSE)
    /\ pc = "done"
    /\ Len(caller.parameter.components) = 2
    /\ Contains(caller.parameter.components[2], <<"\n", "#">>)
    /\ Len(yielded) = 1
    /\ yielded[1].components = caller.parameter.components

\* ":".join(components)
RECURSIVE JoinComponents(_)
JoinComponents(components) ==
    IF components = <<>> THEN <<>>
    ELSE IF Len(components) = 1 THEN components[1]
    ELSE components[1] \o <<":">> \o JoinComponents(Tail(components))

\* C13: unescapable serialization.  stringify with escapes=False and
\* exact=False raises ValueError exactly when a component holds "//", ":" or
\* ";"; otherwise it returns "#", the components as they are (backslashes and
\* "#" not escaped) joined by ":", and ";".
C13_UnescapableSerialization ==
    Stringified(FALSE, FALSE)
        => IF HasControlSubstring(caller.parameter.components)
           THEN written[1].raise = ValueError
           ELSE /\ written[1].raise = NoError
                /\ written[1].out =
                       <<"#">> \o JoinComponents(caller.parameter.components)
                               \o <<";">>

\* C13's case: a backslash and a "#" written as they are, a ":" between them
C13_Witness ==
    /\ Stringified(FALSE, FALSE)
    /\ caller.parameter.components = << <<"\\">>, <<"#">> >>
    /\ written[1] = [raise |-> NoError, out |-> <<"#", "\\", ":", "#", ";">>]

\* C14: exact serialization with escapes disabled fails fast.  stringify with
\* exact=True and escapes=False raises ValueError for every parameter whose
\* escape_positions is non-empty, with or without recorded comments.
C14_ExactWithoutEscapesFailsFast ==
    (/\ Stringified(FALSE, TRUE)
     /\ ~caller.parameter.escape_positions.none
     /\ caller.parameter.escape_positions.value # <<>>)
        => written[1].raise = ValueError

\* C15: exact serialization is inverted by parsing.  For a parameter p as
\* parse_msd records it with escapes=True, whose preamble is a string and
\* whose suffix holds no "#", the first parameter parse_msd yields from
\* p.stringify(exact=True) equals p in every field.
C15_ExactInvertedByParsing ==
    (/\ Stringified(TRUE, TRUE)
     /\ caller.parsed
     /\ ~caller.parameter.preamble.none
     /\ ~caller.parameter.escape_positions.none
     /\ ~Contains(caller.parameter.suffix, <<"#">>))
        => /\ pc = "done"
           /\ written[1].raise = NoError
           /\ Len(yielded) >= 1
           /\ yielded[1] = caller.parameter

\* how many characters of the document precede token i
OffsetOf(i) == Len(TokenText(SubSeq(tokens, 1, i - 1)))

\* how many parameters the tokens taken have opened
Opened == CountIn(SubSeq(tokens, 1, consumed), "START_PARAMETER")

\* the k-th parameter was closed by an END_PARAMETER token
Terminated(k) == EndIndex(k) # 0 /\ tokens[EndIndex(k)].token = "END_PARAMETER"

\* where the text after the k-th parameter stops: at the "#" of the next
\* parameter, or at the last character taken
SuffixEnd(k) ==
    IF k < Opened THEN OffsetOf(StartIndex(k + 1))
    ELSE Len(TokenText(SubSeq(tokens, 1, consumed)))

C17_Preamble ==
    \A k \in 1..Len(yielded) :
        yielded[k].preamble =
            IF k = 1 THEN Some(SubSeq(input, 1, OffsetOf(StartIndex(1))))
            ELSE None

\* C17's case: a first parameter after a comment, and later parameters
C17_Witness ==
    /\ Len(yielded) >= 2
    /\ yielded[1].preamble = Some(<<"/", "/", " ", "h", "i", "\n">>)
    /\ yielded[2].preamble = None

\* C18: suffix after recovery.  A yielded parameter that missing-semicolon
\* recovery closed has a suffix of whitespace only, with a line break in it.
C18_SuffixAfterRecovery ==
    \A k \in 1..Len(yielded) :
        (Terminated(k) /\ tokens[EndIndex(k)].text # <<";">>)
            => /\ isspace(yielded[k].suffix)
               /\ \E i \in 1..Len(yielded[k].suffix) :
                      yielded[k].suffix[i] \in {"\r", "\n"}

\* C18's case: a parameter closed by two line feeds before the next "#"
C18_Witness ==
    \E k \in 1..Len(yielded) :
        /\ Terminated(k)
        /\ tokens[EndIndex(k)].text = <<"\n", "\n">>
        /\ yielded[k].suffix = <<"\n", "\n">>

\* a TEXT token that is a metacharacter without a role where it stands: "#"
\* inside a parameter, ":" or ";" outside one, a "/" that opens no comment,
\* an escape sequence outside a parameter
IsMetacharacterText(i) ==
    /\ tokens[i].token = "TEXT"
    /\ \/ tokens[i].text \in {<<"#">>, <<":">>, <<";">>, <<"/">>}
       \/ escapes /\ Len(tokens[i].text) = 2 /\ tokens[i].text[1] = "\\"

\* C20 as claimed: TEXT tokens are maximal, no two of them are adjacent.
C20_TextMaximal ==
    \A i \in 1..(Len(tokens) - 1) :
        ~(tokens[i].token = "TEXT" /\ tokens[i + 1].token = "TEXT")

\* C20 amended: text runs are maximal.  Of two adjacent TEXT tokens one is a
\* metacharacter taken as text, or the second starts where a read chunk
\* started (the run was cut at the end of what had been read).
C20_TextRunsMaximal ==
    \A i \in 1..(Len(tokens) - 1) :
        (tokens[i].token = "TEXT" /\ tokens[i + 1].token = "TEXT")
            => \/ IsMetacharacterText(i)
               \/ IsMetacharacterText(i + 1)
               \/ OffsetOf(i + 1) % chunk = 0

\* C20's case: a text run and, right after it, a "#" taken as text inside the
\* parameter, the document read in one chunk
C20_Witness ==
    /\ chunk = CHUNK
    /\ \E i \in 2..Len(tokens) :
           /\ tokens[i] = Token("TEXT", <<"#">>)
           /\ tokens[i - 1].token = "TEXT"
           /\ ~IsMetacharacterText(i - 1)

\* C19: chunk independence.  Parsing a document as one string ends as parsing
\* it from a stream read in chunks ended, with the same parameters yielded;
\* and no text run inside a parameter that ends in a blank line is emitted
\* whole when the next character of the document is "#", wherever the chunks
\* end.
C19_ChunkIndependence ==
    /\ (caller.op = "file" /\ pc \in {"done", "error"})
           => /\ yielded = caller.yielded
              /\ error = caller.error
    /\ \A i \in 1..Len(tokens) :
           (tokens[i].token = "TEXT" /\ InsideBefore(i)
                /\ EndsInBlankLine(tokens[i].text))
               => NextInputChar(i) # "#"

\* token i is a "#" of the document taken on its own (not part of a comment or
\* of an escape sequence)
IsPound(i) ==
    tokens[i].text = <<"#">> /\ tokens[i].token \in {"TEXT", "START_PARAMETER"}

\* token i is a terminator that recovery made out of whitespace
IsRecovered(i) ==
    i >= 1 /\ tokens[i].token = "END_PARAMETER" /\ tokens[i].text # <<";">>

\* the text the lexer matched right before token i: the TEXT token before it,
\* or the whitespace recovery cut off as a terminator; empty after any other
\* token
RunBefore(i) ==
    IF i > 1 /\ (tokens[i - 1].token = "TEXT" \/ IsRecovered(i - 1))
    THEN tokens[i - 1].text
    ELSE <<>>

\* the lexer was inside a parameter when it matched the text before token i
InsideBeforeRun(i) ==
    IF IsRecovered(i - 1) THEN InsideBefore(i - 1) ELSE InsideBefore(i)

\* C21: mid-line "#" is literal.  Inside a parameter, a "#" that does not
\* follow a line break and then only spaces or tabs within the text matched
\* before it is a TEXT token, no terminator is made of the text before it, and
\* once the parser has taken it the parser is still inside the parameter and
\* the "#" ends the current component.
C21_MidLinePoundLiteral ==
    \A i \in 1..Len(tokens) :
        (IsPound(i) /\ InsideBeforeRun(i) /\ ~EndsInBlankLine(RunBefore(i)))
            => /\ tokens[i].token = "TEXT"
               /\ ~IsRecovered(i - 1)
               /\ consumed = i
                      => /\ parser.inside_parameter
                         /\ parser.components # <<>>
                         /\ Last(parser.components) # <<>>
                         /\ Last(Last(parser.components)) = "#"

\* C21's case: a "#" after text on the same line, taken by the parser into
\* the component
C21_Witness ==
    /\ consumed = 3
    /\ tokens[2] = Token("TEXT", <<"a">>)
    /\ tokens[3] = Token("TEXT", <<"#">>)
    /\ parser.components = << <<"a", "#">> >>

\* C22: tokens are context-correct.  lex_msd emits NEXT_COMPONENT,
\* END_PARAMETER and ESCAPE only inside a parameter and START_PARAMETER only
\* outside one; a ":", a ";" or an escape sequence met outside a parameter is
\* a TEXT token.
C22_ContextCorrect ==
    \A i \in 1..Len(tokens) :
        /\ tokens[i].token \in {"NEXT_COMPONENT", "END_PARAMETER", "ESCAPE"}
               => InsideBefore(i)
        /\ tokens[i].token = "START_PARAMETER" => ~InsideBefore(i)
        /\ (/\ ~InsideBefore(i)
            /\ \/ tokens[i].text \in {<<":">>, <<";">>}
               \/ (escapes /\ Len(tokens[i].text) = 2
                           /\ tokens[i].text[1] = "\\"))
               => tokens[i].token = "TEXT"

\* C22's case: a ";" outside a parameter is text, the ";" inside the next
\* parameter ends it
C22_Witness ==
    /\ Len(tokens) = 3
    /\ tokens[1] = Token("TEXT", <<";">>)
    /\ tokens[2] = Token("START_PARAMETER", <<"#">>)
    /\ tokens[3] = Token("END_PARAMETER", <<";">>)

\* C23: escapes disabled.  With escapes=False lex_msd emits no ESCAPE token; a
\* ":" or ";" right after a backslash inside a parameter is still a separator
\* or a terminator, the backslash stays in the component, and every parameter
\* yielded has escape_positions = None.
C23_EscapesDisabled ==
    ~escapes =>
        /\ \A i \in 1..Len(tokens) :
               /\ tokens[i].token # "ESCAPE"
               /\ (/\ i > 1
                   /\ InsideBefore(i)
                   /\ tokens[i - 1].token = "TEXT"
                   /\ Last(tokens[i - 1].text) = "\\")
                      => /\ tokens[i].text = <<":">>
                                => tokens[i].token = "NEXT_COMPONENT"
                         /\ tokens[i].text = <<";">>
                                => tokens[i].token = "END_PARAMETER"
        /\ \A k \in 1..Len(yielded) :
               /\ yielded[k].components = BodyComponents(k)
               /\ yielded[k].escape_positions = None

\* C23's case: "#", a backslash and ":" parsed with escapes=False give the
\* components backslash and "", with no escape positions
C23_Witness ==
    /\ ~escapes
    /\ pc = "done"
    /\ Len(yielded) = 1
    /\ yielded[1].components = << <<"\\">>, <<>> >>
    /\ yielded[1].escape_positions = None

\* C24: no adjacent escapes.  In every parameter parse_msd yields,
\* escape_positions is strictly increasing and two consecutive entries differ
\* by at least 2.
C24_NoAdjacentEscapes ==
    \A k \in 1..Len(yielded) :
        ~yielded[k].escape_positions.none
            => LET pos == yielded[k].escape_positions.value
               IN  \A j \in 1..(Len(pos) - 1) : pos[j + 1] - pos[j] >= 2

\* C24's case: two escaped backslashes in a row, their escapes two apart
C24_Witness ==
    /\ pc = "done"
    /\ Len(yielded) = 1
    /\ yielded[1].components = << <<"\\", "\\">> >>
    /\ yielded[1].escape_positions = Some(<<1, 3>>)

\* the texts of the COMMENT tokens of a body, in order
RECURSIVE CommentTexts(_)
CommentTexts(body) ==
    IF body = <<>> THEN <<>>
    ELSE (IF Head(body).token = "COMMENT" THEN <<Head(body).text>> ELSE <<>>)
         \o CommentTexts(Tail(body))

\* C25: no comment is lost.  The comments of a yielded parameter are the
\* COMMENT tokens of its body, each recorded once and in order, with strictly
\* increasing line indices, whatever the line breaks of the document are
\* (LF, CR LF or a CR on its own).
C25_NoCommentLost ==
    \A k \in 1..Len(yielded) :
        LET recorded == yielded[k].comments
        IN  /\ [j \in 1..Len(recorded) |-> recorded[j][2]] = CommentTexts(Body(k))
            /\ \A j \in 1..(Len(recorded) - 1) :
                   recorded[j][1] < recorded[j + 1][1]

\* C26: comments are never stray.  With strict=True a comment outside any
\* parameter raises nothing: it is appended to the preamble when no parameter
\* has started yet, and to the suffix of the parameter before it otherwise.
C26_CommentsNeverStray ==
    (/\ strict
     /\ consumed > 0
     /\ tokens[consumed].token = "COMMENT"
     /\ ~InsideBefore(consumed))
        => /\ pc # "error"
           /\ IF Opened = 0
              THEN parser.preamble = Some(TokenText(SubSeq(tokens, 1, consumed)))
              ELSE /\ parser.preamble.none \/ Opened = 1
                   /\ parser.suffix =
                          TokenText(SubSeq(tokens, EndIndex(Opened), consumed))

\* C26's case: strict parsing has taken a comment right after a parameter's
\* ";" into the suffix
C26_Witness ==
    /\ strict
    /\ consumed > 1
    /\ tokens[consumed].token = "COMMENT"
    /\ tokens[consumed - 1] = Token("END_PARAMETER", <<";">>)
    /\ parser.suffix = <<";">> \o tokens[consumed].text
    /\ pc = "run"

\* C27: the byte order mark is whitespace.  With strict=True a TEXT token
\* outside any parameter that holds only whitespace characters and byte order
\* marks, in any combination, raises no stray-text error.
C27_BomIsWhitespace ==
    (/\ strict
     /\ consumed > 0
     /\ tokens[consumed].token = "TEXT"
     /\ ~InsideBefore(consumed)
     /\ ~HasStrayChar(tokens[consumed].text))
        => ~(error.type = "MSDParserError" /\ error.what = "stray")

\* C28 as claimed: a parameter is yielded at the moment its terminator token
\* is consumed, so once a terminator has been taken as many parameters have
\* been yielded as terminators taken.
C28_EmittedAtTerminator ==
    (consumed > 0 /\ tokens[consumed].token = "END_PARAMETER")
        => Len(yielded) = CountIn(SubSeq(tokens, 1, consumed), "END_PARAMETER")

\* C28 amended: emission point.  A parameter is yielded when the next
\* START_PARAMETER token is consumed, however it ended: while parse_msd runs
\* every parameter opened but the last has been yielded and the last is
\* buffered; it is yielded at end of input, or when stray text after it
\* raises in strict mode, and not when any other exception ends the run.
C28_EmittedAtNextStart ==
    /\ pc = "run" => Len(yielded) = Max(Opened - 1, 0)
    /\ pc = "done" => Len(yielded) = Opened
    /\ pc = "error" =>
           Len(yielded) = IF error.type = "MSDParserError" /\ error.what = "stray"
                          THEN Opened
                          ELSE Max(Opened - 1, 0)

\* C28's case: a parameter ended by ";" is yielded only as the next "#" is
\* taken
C28_Witness ==
    /\ consumed = 3
    /\ tokens[2] = Token("END_PARAMETER", <<";">>)
    /\ tokens[3] = Token("START_PARAMETER", <<"#">>)
    /\ Len(yielded) = 1
    /\ yielded[1].suffix = <<";">>

\* how many characters the comments of a parameter hold
RECURSIVE CommentChars(_)
CommentChars(comments) ==
    IF comments = <<>> THEN 0
    ELSE Len(Head(comments)[2]) + CommentChars(Tail(comments))

\* how many characters follow the "#" in the raw text of a parameter: its
\* components and the ":" between them, its comments, one "\" per escape
RawLength(p) ==
    Len(JoinComponents(p.components)) + CommentChars(p.comments)
        + Len(p.escape_positions.value)

\* an escape position at which no character is left to escape
EscapeBeyondEnd(p) ==
    \E j \in 1..Len(p.escape_positions.value) :
        p.escape_positions.value[j] >= RawLength(p)

\* a comment on a line the components never reach
CommentBeyondEnd(p) ==
    \E j \in 1..Len(p.comments) :
        p.comments[j][1] > LineBreaks(JoinComponents(p.components))

\* C29: bookkeeping integrity.  stringify with exact=True fails, instead of
\* returning a string, for a parameter with an escape position beyond the end
\* of its text or a comment on a line its text never reaches, with or without
\* recorded comments.
C29_BookkeepingIntegrity ==
    (/\ \E esc \in BOOLEAN : Stringified(esc, TRUE)
     /\ EscapeBeyondEnd(caller.parameter) \/ CommentBeyondEnd(caller.parameter))
        => written[1].raise # NoError

\* what stringify(exact=True) wrote between the opening "#" and the suffix
ExactBody(p, out) ==
    SubSeq(out, Len(p.preamble.value) + 2, Len(out) - Len(p.suffix))

\* C30: exact mode replays escapes only where recorded.  In the string
\* stringify(exact=True) returns, the text between the opening "#" and the
\* suffix has a backslash at each offset of escape_positions (counted from
\* the "#") and is otherwise the components, the ":" between them and the
\* comments as they are: nothing else is inserted, with or without recorded
\* comments.
C30_EscapesOnlyWhereRecorded ==
    (/\ \E esc \in BOOLEAN : Stringified(esc, TRUE)
     /\ ~caller.parameter.escape_positions.none
     /\ written[1].raise = NoError)
        => LET p == caller.parameter
               body == ExactBody(p, written[1].out)
               pos == p.escape_positions.value
           IN  /\ \A j \in 1..Len(pos) :
                      pos[j] \in 1..Len(body) /\ body[pos[j]] = "\\"
               /\ Len(body) = RawLength(p)

\* seq without the elements at the indices in `at`
RemoveAt(seq, at) ==
    LET keep == {i \in 1..Len(seq) : i \notin at}
        RECURSIVE pick(_)
        pick(left) == IF left = {} THEN <<>>
                      ELSE <<seq[SetMin(left)]>> \o pick(left \ {SetMin(left)})
    IN  pick(keep)

\* whether s ends with `tail`
EndsWith(s, tail) ==
    Len(s) >= Len(tail) /\ SubSeq(s, Len(s) - Len(tail) + 1, Len(s)) = tail

\* text, whose first line has index `line`, without the comments recorded for
\* its lines: a comment stands at the end of its line, before the "\n" or
\* "\r\n" that ends it
RECURSIVE Uncomment(_, _, _)
Uncomment(text, line, comments) ==
    LET k == SpanNotIn(text, {"\n"})
        cr == IF k > 0 /\ text[k] = "\r" /\ k < Len(text) THEN 1 ELSE 0
        content == Upto(text, k - cr)
        here == {j \in 1..Len(comments) : comments[j][1] = line}
        bare == IF here # {} /\ EndsWith(content, CommentAt(comments, line))
                THEN Upto(content, Len(content) - Len(CommentAt(comments, line)))
                ELSE content
    IN  IF k >= Len(text) THEN bare
        ELSE bare \o SubSeq(text, k - cr + 1, k + 1)
                  \o Uncomment(From(text, k + 1), line + 1, comments)

\* C31: exact mode writes every component in full.  For a parameter with a
\* recorded comment, what stringify(exact=True) returns between the "#" and
\* the suffix is, once the backslashes at the escape positions and the
\* comments are taken out, the components joined by ":": the text after the
\* last comment is written for every component.
C31_EveryComponentInFull ==
    (/\ \E esc \in BOOLEAN : Stringified(esc, TRUE)
     /\ caller.parameter.comments # <<>>
     /\ written[1].raise = NoError)
        => LET p == caller.parameter
               body == ExactBody(p, written[1].out)
               pos == {p.escape_positions.value[j] :
                          j \in 1..Len(p.escape_positions.value)}
           IN  Uncomment(RemoveAt(body, pos), 0, p.comments)
                   = JoinComponents(p.components)

\* C32: no lexical unit of more than one character is split by a chunk
\* boundary.  For every chunk size each ESCAPE token is a backslash and one
\* more character, each COMMENT token starts with "//" and extends to the end
\* of its line, and no "/" is emitted on its own when a "/" follows it in the
\* document.
C32_UnitsNotSplit ==
    \A i \in 1..Len(tokens) :
        /\ tokens[i].token = "ESCAPE"
               => (Len(tokens[i].text) = 2 /\ tokens[i].text[1] = "\\")
        /\ tokens[i].token = "COMMENT"
               => /\ StartsWith(tokens[i].text, <<"/", "/">>)
                  /\ \A j \in 1..Len(tokens[i].text) :
                         tokens[i].text[j] \notin {"\r", "\n"}
                  /\ NextInputChar(i) \in {"\r", "\n", ""}
        /\ (tokens[i].token # "ESCAPE" /\ tokens[i].text = <<"/">>)
               => NextInputChar(i) # "/"

\* an escape and a comment, both longer than the chunks they were read in
C32_Witness ==
    /\ chunk = 1
    /\ \E i \in 1..Len(tokens) : tokens[i].token = "ESCAPE"
    /\ \E i \in 1..Len(tokens) :
           tokens[i].token = "COMMENT" /\ Len(tokens[i].text) > 2

\* C33: component count.  Every yielded parameter has exactly one more
\* component than there are NEXT_COMPONENT tokens between its START_PARAMETER
\* and its end, the empty components included, so it has at least one.
C33_ComponentCount ==
    \A k \in 1..Len(yielded) :
        /\ Len(yielded[k].components) = 1 + CountIn(Body(k), "NEXT_COMPONENT")
        /\ Len(yielded[k].components) >= 1

\* a yielded parameter of three components, all of them empty
C33_Witness ==
    \E k \in 1..Len(yielded) : yielded[k].components = << <<>>, <<>>, <<>> >>

\* C34: the parser's output can always be serialized exactly.  For every
\* parameter parse_msd yields in lenient mode, stringify(exact=True) returns
\* without raising.
C34_AlwaysSerializable ==
    ~strict => \A i \in 1..Len(written) : written[i].raise = NoError

\* C35: escaped serialization is inverted by parsing, whatever the components
\* hold.  For a parameter p with at least one component, parse_msd with
\* escapes=True of p.stringify(escapes=True, exact=False) yields exactly one
\* parameter, and its components are p.components.
C35_EscapedParseInverse ==
    (/\ Stringified(TRUE, FALSE)
     /\ Len(caller.parameter.components) >= 1)
        => /\ written[1].raise = NoError
           /\ pc = "done"
           /\ Len(yielded) = 1
           /\ yielded[1].components = caller.parameter.components

\* C36: unescaped serialization is unambiguous when it succeeds.  For a
\* parameter p with at least one component whose
\* stringify(escapes=False, exact=False) returns, parse_msd with escapes=False
\* of the result yields exactly one parameter, and its components are
\* p.components.
C36_UnescapedParseInverse ==
    (/\ Stringified(FALSE, FALSE)
     /\ Len(caller.parameter.components) >= 1
     /\ written[1].raise = NoError)
        => /\ pc = "done"
           /\ Len(yielded) = 1
           /\ yielded[1].components = caller.parameter.components

\* C37: strict and lenient agree on clean input.  When parse_msd with
\* strict=True raises no error it has yielded exactly the parameters lenient
\* mode yields from the same document; on any document, the components of the
\* parameters strict mode yields before it raises are a prefix of the
\* components of the parameters lenient mode yields.
C37_StrictAgreesWithLenient ==
    (caller.op = "strict" /\ pc \in {"done", "error"})
        => /\ caller.error = NoError => yielded = caller.yielded
           /\ Len(caller.yielded) <= Len(yielded)
           /\ \A k \in 1..Len(caller.yielded) :
                  k <= Len(yielded)
                      => caller.yielded[k].components = yielded[k].components

\* C38: the lexer and the parser stay in step.  After each token the parser
\* has taken, its inside_parameter flag is the one the lexer had after
\* emitting that token; the parser's assertions never fail, and while the
\* flag is set there is a component for push_text to write to.
C38_InStep ==
    /\ error # ParserAssertion
    /\ error # ParserIndexError
    /\ pc \in {"run", "done"}
           => /\ parser.inside_parameter = InsideBefore(consumed + 1)
              /\ (consumed = Len(tokens) /\ lexer.at = "loop")
                     => parser.inside_parameter = lexer.inside_parameter
              /\ parser.inside_parameter => parser.components # <<>>

\* every kind of token has been taken, and both sides are outside a parameter
C38_Witness ==
    /\ pc = "done"
    /\ error = NoError
    /\ ~parser.inside_parameter
    /\ \A t \in {"START_PARAMETER", "NEXT_COMPONENT", "END_PARAMETER",
                  "TEXT", "ESCAPE", "COMMENT"} :
           CountIn(tokens, t) >= 1

\* C39, as stated: every parameter parse_msd yields with strict=True was
\* closed by a literal ";", so its suffix starts with ";"; a parameter left
\* open at the end of the input is not yielded.
C39_OnlyTerminated ==
    strict => \A k \in 1..Len(yielded) :
                  /\ Terminated(k)
                  /\ StartsWith(yielded[k].suffix, <<";">>)

\* C39, amended: every parameter parse_msd yields with strict=True was closed
\* by a literal ";" and has a suffix that starts with ";", or is the last
\* parameter, left open when the input ended, yielded with an empty suffix
\* once the whole input was read without an error.
C39_TerminatedOrOpenAtEnd ==
    strict => \A k \in 1..Len(yielded) :
                  \/ /\ Terminated(k)
                     /\ tokens[EndIndex(k)].text = <<";">>
                     /\ StartsWith(yielded[k].suffix, <<";">>)
                  \/ /\ ~Terminated(k)
                     /\ k = Len(yielded)
                     /\ yielded[k].suffix = <<>>
                     /\ pc = "done"
                     /\ error = NoError
                     /\ consumed = Len(tokens)
                     /\ TokenText(tokens) = input

\* strict mode has yielded a parameter closed by ";" and then one that the
\* end of the input left open
C39_Witness ==
    /\ strict
    /\ pc = "done"
    /\ Len(yielded) = 2
    /\ Terminated(1)
    /\ StartsWith(yielded[1].suffix, <<";">>)
    /\ ~Terminated(2)
    /\ yielded[2].suffix = <<>>

====
